---------------------------- MODULE Spec2Model ----------------------------
(***************************************************************************)
(* Model of src/App.py: the Streamlit script that loads                    *)
(* RelatorioMecTerapiaOcupacional.csv, narrows it with filter_dataframe    *)
(* and exports the narrowed table.                                         *)
(*                                                                         *)
(* A DataFrame is a record                                                 *)
(*   columns : the column names, in order                                  *)
(*   dtype   : column name -> pandas dtype                                 *)
(*   index   : the row labels, in order (boolean indexing keeps labels)    *)
(*   data    : column name -> [row label -> cell]                          *)
(* A cell is a record [k, n, s, off]:                                      *)
(*   k = "num"  a number n                                                 *)
(*   k = "str"  a string s, a tuple of one-character strings               *)
(*   k = "ts"   a timezone-naive instant, n its wall-clock time            *)
(*   k = "tsz"  a timezone-aware instant, n its UTC time, off its offset   *)
(*   k = "na"   a missing value (NaN / NaT)                                *)
(* Time is counted in units of which DayUnits make one calendar day.       *)
(* DataFrames live in a heap and the script's variables hold references,   *)
(* so that df.copy() and the in-place column assignments of the            *)
(* conversion loop are what they are in Python.                            *)
(***************************************************************************)
EXTENDS Integers, Sequences, FiniteSets

VARIABLES csv, pc, heap, df_original, df, df_filtrado, modify,
          to_filter_columns, i, trace, raised, errors

vars == <<csv, pc, heap, df_original, df, df_filtrado, modify,
          to_filter_columns, i, trace, raised, errors>>

\* Number of data rows of the CSV file.
NRows == 11

\* df[column].nunique() < 10
CatThreshold == 10

\* step = (_max - _min) / 100
SliderSteps == 100

\* Time units per calendar day (st.date_input returns whole days).
DayUnits == 2

------------------------------------------------------------------------------
(* Cells *)

Num(n) == [k |-> "num", n |-> n, s |-> <<>>, off |-> 0]
Str(s) == [k |-> "str", n |-> 0, s |-> s, off |-> 0]
Ts(n) == [k |-> "ts", n |-> n, s |-> <<>>, off |-> 0]
Tsz(n, off) == [k |-> "tsz", n |-> n, s |-> <<>>, off |-> off]
NA == [k |-> "na", n |-> 0, s |-> <<>>, off |-> 0]

Range(seq) == {seq[j] : j \in 1..Len(seq)}

Digits == <<"0", "1", "2", "3", "4", "5", "6", "7", "8", "9">>

IsDigit(c) == c \in Range(Digits)

DigitVal(c) == (CHOOSE d \in 1..Len(Digits) : Digits[d] = c) - 1

RECURSIVE DigitsVal(_)
DigitsVal(s) ==
  IF s = <<>> THEN 0
  ELSE 10 * DigitsVal(SubSeq(s, 1, Len(s) - 1)) + DigitVal(s[Len(s)])

RECURSIVE NatToStr(_)
NatToStr(n) ==
  IF n < 10 THEN <<Digits[n + 1]>>
  ELSE NatToStr(n \div 10) \o <<Digits[(n % 10) + 1]>>

AllDigits(s) == s # <<>> /\ \A j \in 1..Len(s) : IsDigit(s[j])

\* The date/time strings of the model: a wall-clock time written in digits,
\* optionally followed by "+" and a UTC offset written in digits (the shape of
\* an ISO-8601 string with an offset).  Anything else does not parse.
ParseDatetime(s) ==
  LET plus == {j \in 1..Len(s) : s[j] = "+"}
  IN IF plus = {}
       THEN IF AllDigits(s) THEN [ok |-> TRUE, v |-> Ts(DigitsVal(s))]
            ELSE [ok |-> FALSE, v |-> NA]
     ELSE LET p == CHOOSE j \in plus : \A q \in plus : j <= q
              w == SubSeq(s, 1, p - 1)
              o == SubSeq(s, p + 1, Len(s))
          IN IF AllDigits(w) /\ AllDigits(o)
               THEN [ok |-> TRUE, v |-> Tsz(DigitsVal(w) - DigitsVal(o), DigitsVal(o))]
             ELSE [ok |-> FALSE, v |-> NA]

\* pd.to_datetime on one element: a missing value becomes NaT.
ToDatetimeScalar(c) ==
  CASE c.k = "na" -> [ok |-> TRUE, v |-> NA]
    [] c.k = "str" -> ParseDatetime(c.s)
    [] c.k \in {"ts", "tsz"} -> [ok |-> TRUE, v |-> c]
    [] OTHER -> [ok |-> FALSE, v |-> NA]

\* str(value), as astype(str) and the PDF renderer compute it.
StrOf(c) ==
  CASE c.k = "str" -> c.s
    [] c.k = "na" -> <<"n", "a", "n">>
    [] c.k = "num" -> IF c.n < 0 THEN <<"-">> \o NatToStr(0 - c.n) ELSE NatToStr(c.n)
    [] c.k = "ts" -> IF c.n < 0 THEN <<"-">> \o NatToStr(0 - c.n) ELSE NatToStr(c.n)
    [] OTHER -> (IF c.n + c.off < 0 THEN <<"-">> \o NatToStr(0 - (c.n + c.off))
                 ELSE NatToStr(c.n + c.off)) \o <<"+">> \o NatToStr(c.off)


------------------------------------------------------------------------------
(* The CSV file: the tables pd.read_csv(..., sep=';') can hand to the script. *)
(* read_csv infers int64, float64 (numbers with empty fields) or object      *)
(* (strings, empty fields read as NaN) for a column.                          *)

Columns == <<"A", "B">>

RowLabels == 1..NRows

\* Strings that are not date/time strings.  "EUR" stands for the one character
\* U+20AC (the euro sign), which is outside latin-1.
TextPool ==
  << <<"a">>, <<"b">>, <<"a", "b">>, <<"a", "+", "b">>, <<"a", "a", "b">>,
     <<"b", "a">>, <<"b", "b">>, <<"a", "a">>, <<"b", "+">>, <<"EUR">> >>

\* The families of column contents: m distinct values repeating down the rows,
\* the last row an empty field when na.
ColSpecs ==
  { [fam |-> "int", m |-> 2, na |-> FALSE],
    [fam |-> "int", m |-> 10, na |-> FALSE],
    [fam |-> "int", m |-> 10, na |-> TRUE],
    [fam |-> "int", m |-> 9, na |-> TRUE],
    [fam |-> "text", m |-> 9, na |-> FALSE],
    [fam |-> "text", m |-> 10, na |-> FALSE],
    [fam |-> "text", m |-> 10, na |-> TRUE],
    [fam |-> "date", m |-> 10, na |-> FALSE],
    [fam |-> "date", m |-> 10, na |-> TRUE],
    [fam |-> "datetz", m |-> 10, na |-> FALSE],
    [fam |-> "datemix", m |-> 10, na |-> FALSE] }

CellOf(spec, r) ==
  LET j == (r - 1) % spec.m
  IN IF spec.na /\ r = NRows THEN NA
     ELSE CASE spec.fam = "int" -> Num(5 * j)
            [] spec.fam = "text" -> Str(TextPool[j + 1])
            [] spec.fam = "date" -> Str(NatToStr(j))
            [] spec.fam = "datetz" -> Str(NatToStr(j) \o <<"+", "1">>)
            [] OTHER -> IF j = 0 THEN Str(<<"a">>) ELSE Str(NatToStr(j))

InferredDtype(spec) ==
  IF spec.fam = "int" THEN (IF spec.na THEN "float64" ELSE "int64") ELSE "object"

ReadCsv(specA, specB) ==
  LET sp == [c \in Range(Columns) |-> IF c = "A" THEN specA ELSE specB]
  IN [columns |-> Columns,
      dtype |-> [c \in Range(Columns) |-> InferredDtype(sp[c])],
      index |-> [r \in RowLabels |-> r],
      data |-> [c \in Range(Columns) |-> [r \in RowLabels |-> CellOf(sp[c], r)]]]

Tables == {ReadCsv(a, b) : a \in ColSpecs, b \in ColSpecs}

EmptyFrame ==
  [columns |-> Columns,
   dtype |-> [c \in Range(Columns) |-> "object"],
   index |-> <<>>,
   data |-> [c \in Range(Columns) |-> [r \in {} |-> NA]]]

Files ==
  {[exists |-> FALSE, wellformed |-> FALSE, table |-> EmptyFrame],
   [exists |-> TRUE, wellformed |-> FALSE, table |-> EmptyFrame]}
  \cup {[exists |-> TRUE, wellformed |-> TRUE, table |-> t] : t \in Tables}

------------------------------------------------------------------------------
(* pandas operations used by filter_dataframe *)

Rows(t) == Range(t.index)

ColumnCells(t, c) == {t.data[c][r] : r \in Rows(t)}

is_object_dtype(d) == d = "object"

is_categorical_dtype(d) == d = "category"

is_numeric_dtype(d) == d \in {"int64", "float64"}

is_datetime64_any_dtype(d) == d \in {"datetime64[ns]", "datetime64[ns, tz]"}

\* Series.nunique(): missing values are not counted.
Nunique(t, c) == Cardinality({v \in ColumnCells(t, c) : v.k # "na"})

\* Series.unique(): every value once, a missing value included.
Unique(t, c) == ColumnCells(t, c)

\* Series.min() / Series.max(): missing values are skipped.
ColMin(t, c) ==
  LET ns == {v.n : v \in {w \in ColumnCells(t, c) : w.k # "na"}}
  IN CHOOSE x \in ns : \A y \in ns : x <= y

ColMax(t, c) ==
  LET ns == {v.n : v \in {w \in ColumnCells(t, c) : w.k # "na"}}
  IN CHOOSE x \in ns : \A y \in ns : x >= y

\* pd.to_datetime(df[col], errors="coerce"): an element that does not parse
\* becomes NaT and the call never raises.
ToDatetimeCoerce(t, c) ==
  LET parsed == [r \in Rows(t) |-> ToDatetimeScalar(t.data[c][r])]
  IN [ok |-> TRUE,
      dtype |-> IF \E r \in Rows(t) : parsed[r].v.k = "tsz"
                  THEN "datetime64[ns, tz]" ELSE "datetime64[ns]",
      col |-> [r \in Rows(t) |-> parsed[r].v]]

\* pd.to_datetime(df[col]): every element is parsed or the call raises; the
\* result is one datetime64 column, so timezone-aware and timezone-naive
\* elements (or two offsets) do not mix.
ToDatetime(t, c) ==
  LET parsed == [r \in Rows(t) |-> ToDatetimeScalar(t.data[c][r])]
      zones == {<<parsed[r].v.k, parsed[r].v.off>> :
                  r \in {q \in Rows(t) : parsed[q].v.k # "na"}}
  IN IF (\A r \in Rows(t) : parsed[r].ok) /\ Cardinality(zones) <= 1
       THEN [ok |-> TRUE,
             dtype |-> IF \E z \in zones : z[1] = "tsz"
                         THEN "datetime64[ns, tz]" ELSE "datetime64[ns]",
             col |-> [r \in Rows(t) |-> parsed[r].v]]
     ELSE [ok |-> FALSE, dtype |-> t.dtype[c], col |-> t.data[c]]

\* Series.dt.tz_localize(None): the offset is dropped, the wall-clock time kept.
TzLocalizeNone(v) == IF v.k = "tsz" THEN Ts(v.n + v.off) ELSE v

\* Lines 96-103 for one column: the try/except around pd.to_datetime, then the
\* timezone normalisation.
ConvertColumn(t, c) ==
  LET try == IF is_object_dtype(t.dtype[c]) THEN ToDatetime(t, c)
             ELSE [ok |-> FALSE, dtype |-> t.dtype[c], col |-> t.data[c]]
      d1 == IF try.ok THEN try.dtype ELSE t.dtype[c]
      c1 == IF try.ok THEN try.col ELSE t.data[c]
  IN IF is_datetime64_any_dtype(d1)
       THEN [dtype |-> "datetime64[ns]",
             col |-> [r \in Rows(t) |-> TzLocalizeNone(c1[r])]]
     ELSE [dtype |-> d1, col |-> c1]

\* The loop of lines 95-103 over every column (the columns are independent).
ConvertAll(t) ==
  [t EXCEPT !.dtype = [c \in Range(Columns) |-> ConvertColumn(t, c).dtype],
            !.data = [c \in Range(Columns) |-> ConvertColumn(t, c).col]]

\* df[mask]: the rows whose mask is true, labels and order kept.
Take(t, keep) ==
  LET idx == SelectSeq(t.index, LAMBDA r : r \in keep)
  IN [t EXCEPT !.index = idx,
               !.data = [c \in Range(Columns) |->
                           [r \in Range(idx) |-> t.data[c][r]]]]


------------------------------------------------------------------------------
(* Series.str.contains(pat): pat is a regular expression (regex=True is the  *)
(* default) searched anywhere in the string, case-sensitive.  The model's     *)
(* regular expressions: an atom is a literal character or "." (any            *)
(* character), optionally followed by "+" (one or more times).                *)

\* re.compile raises re.error ("nothing to repeat") for a "+" with no atom.
ValidRegex(p) ==
  \A j \in 1..Len(p) : p[j] = "+" => (j > 1 /\ p[j - 1] # "+")

AtomMatches(a, ch) == a = "." \/ a = ch

\* p[j..] matches a prefix of s[q..].
RECURSIVE MatchHere(_, _, _, _)
MatchHere(p, j, s, q) ==
  IF j > Len(p) THEN TRUE
  ELSE IF j < Len(p) /\ p[j + 1] = "+"
    THEN \E n \in 1..(Len(s) - q + 1) :
           /\ \A u \in q..(q + n - 1) : AtomMatches(p[j], s[u])
           /\ MatchHere(p, j + 2, s, q + n)
  ELSE q <= Len(s) /\ AtomMatches(p[j], s[q]) /\ MatchHere(p, j + 1, s, q + 1)

\* re.search(p, s)
RegexSearch(p, s) == \E q \in 1..(Len(s) + 1) : MatchHere(p, 1, s, q)

------------------------------------------------------------------------------
(* The widgets' return values.  A widget input is a record                   *)
(*   kind  : the kind of widget that produced it                             *)
(*   vals  : multiselect: the chosen values                                  *)
(*   lo,hi : slider: the chosen range, in units of 1/SliderSteps             *)
(*   dates : date_input: the tuple of chosen days (0, 1 or 2 of them)        *)
(*   pat   : text_input: the text                                            *)

CatInput(vals) ==
  [kind |-> "Categorical", vals |-> vals, lo |-> 0, hi |-> 0, dates |-> <<>>, pat |-> <<>>]

NumInput(lo, hi) ==
  [kind |-> "Numeric", vals |-> {}, lo |-> lo, hi |-> hi, dates |-> <<>>, pat |-> <<>>]

DateInput(dates) ==
  [kind |-> "Temporal", vals |-> {}, lo |-> 0, hi |-> 0, dates |-> dates, pat |-> <<>>]

TextInput(pat) ==
  [kind |-> "Text", vals |-> {}, lo |-> 0, hi |-> 0, dates |-> <<>>, pat |-> pat]

\* Slider positions the user is let to pick, in steps from _min (0) to _max
\* (SliderSteps).
SliderTicks == {0, SliderSteps \div 2, SliderSteps}

\* _min + k * step, in units of 1/SliderSteps: step = (_max - _min) / 100.
SliderValue(t, c, k) == SliderSteps * ColMin(t, c) + k * (ColMax(t, c) - ColMin(t, c))

\* Timestamp -> the calendar day st.date_input shows for it.
DayOf(n) == n \div DayUnits

\* Texts the user is let to type.
Patterns == { <<>>, <<"a">>, <<"a", "+", "b">>, <<"b", ".">>, <<"+">> }

\* IsFewDistinct with <= in place of <.
IsFewDistinctInclusive(n) == n <= CatThreshold

\* df[column].nunique() < 10
IsFewDistinct(n) == n < CatThreshold

\* The if/elif chain of lines 111, 118, 130, 139.
Classify(t, c) ==
  IF is_categorical_dtype(t.dtype[c]) \/ IsFewDistinct(Nunique(t, c)) THEN "Categorical"
  ELSE IF is_numeric_dtype(t.dtype[c]) THEN "Numeric"
  ELSE IF is_datetime64_any_dtype(t.dtype[c]) THEN "Temporal"
  ELSE "Text"

\* The value a widget returns while the user has not touched it.
DefaultInput(t, c, kind) ==
  CASE kind = "Categorical" -> CatInput(Unique(t, c))
    [] kind = "Numeric" -> NumInput(SliderValue(t, c, 0), SliderValue(t, c, SliderSteps))
    [] kind = "Temporal" -> DateInput(<<DayOf(ColMin(t, c)), DayOf(ColMax(t, c))>>)
    [] OTHER -> TextInput(<<>>)

\* The first and the last row of t.
EndRows(t) == IF t.index = <<>> THEN {} ELSE {t.index[1], t.index[Len(t.index)]}

\* The values the user is let to make the widget of column c return.
WidgetInputs(t, c, kind) ==
  CASE kind = "Categorical" ->
         {CatInput(S) : S \in {Unique(t, c), {}}
                          \cup {{t.data[c][r]} : r \in EndRows(t)}
                          \cup {Unique(t, c) \ {t.data[c][r]} : r \in EndRows(t)}}
    [] kind = "Numeric" ->
         {NumInput(SliderValue(t, c, p[1]), SliderValue(t, c, p[2])) :
            p \in {q \in SliderTicks \X SliderTicks : q[1] <= q[2]}}
    [] kind = "Temporal" ->
         {DateInput(d) : d \in
            { <<DayOf(ColMin(t, c)), DayOf(ColMax(t, c))>>,
              <<DayOf(ColMin(t, c))>>,
              <<DayOf(ColMin(t, c)) + 1, DayOf(ColMax(t, c)) - 1>> }}
    [] OTHER -> {TextInput(p) : p \in Patterns}

------------------------------------------------------------------------------
(* The row masks of lines 117, 129, 138, 144. *)

\* between() with both ends exclusive.
BetweenExclusive(x, lo, hi) == lo < x /\ x < hi

\* Series.between(lo, hi): inclusive="both" is the default.
Between(x, lo, hi) == lo <= x /\ x <= hi

\* df[column].isin(user_cat_input): a missing value matches a missing value.
\* The chosen values are options taken from the column itself (line 114), so
\* they have the column's own type.
IsinMask(t, c, vals) == {r \in Rows(t) : t.data[c][r] \in vals}

\* df[column].between(*user_num_input): a comparison with NaN is False.
NumBetweenMask(t, c, lo, hi) ==
  {r \in Rows(t) : t.data[c][r].k = "num"
                   /\ Between(SliderSteps * t.data[c][r].n, lo, hi)}

\* df[column].between(start_date, end_date) with
\* start_date, end_date = map(pd.to_datetime, user_date_input): midnight of
\* each day; a comparison with NaT is False.
DateBetweenMask(t, c, dates) ==
  {r \in Rows(t) : t.data[c][r].k = "ts"
                   /\ Between(t.data[c][r].n, dates[1] * DayUnits, dates[2] * DayUnits)}

\* df[column].astype(str).str.contains(user_text_input)
StrContainsMask(t, c, pat) == {r \in Rows(t) : RegexSearch(pat, StrOf(t.data[c][r]))}

\* One iteration of the loop of lines 109-144 on the current df, given what
\* the column's widget returned.  new: a new DataFrame object was built.
ApplyColumn(t, c, input) ==
  LET kind == Classify(t, c)
      kept(mask) == [ok |-> TRUE, exc |-> "none", new |-> TRUE, df |-> Take(t, mask)]
      same == [ok |-> TRUE, exc |-> "none", new |-> FALSE, df |-> t]
  IN CASE kind = "Categorical" -> kept(IsinMask(t, c, input.vals))
       [] kind = "Numeric" -> kept(NumBetweenMask(t, c, input.lo, input.hi))
       [] kind = "Temporal" ->
            IF Len(input.dates) = 2 THEN kept(DateBetweenMask(t, c, input.dates))
            ELSE same
       [] OTHER ->
            IF input.pat = <<>> THEN same
            ELSE IF ~ValidRegex(input.pat)
              THEN [ok |-> FALSE, exc |-> "re.error", new |-> FALSE, df |-> t]
            ELSE kept(StrContainsMask(t, c, input.pat))


------------------------------------------------------------------------------
(* The export renderers, lines 25-68. *)

\* text = str(item)[:35]
PdfTextLimit == 35

\* The core font Helvetica encodes latin-1 only.
Latin1(ch) == ch # "EUR"

PdfText(v) == SubSeq(StrOf(v), 1, IF Len(StrOf(v)) < PdfTextLimit THEN Len(StrOf(v)) ELSE PdfTextLimit)

\* dataframe_to_pdf: pdf.cell raises FPDFUnicodeEncodingException for a
\* character the font cannot encode.
PdfRenders(t) ==
  \A c \in Range(t.columns) : \A r \in Rows(t) :
    \A j \in 1..Len(PdfText(t.data[c][r])) : Latin1(PdfText(t.data[c][r])[j])

\* dataframe_to_excel: to_excel raises ValueError for a timezone-aware datetime.
ExcelRenders(t) ==
  \A c \in Range(t.columns) : \A r \in Rows(t) : t.data[c][r].k # "tsz"

------------------------------------------------------------------------------
(* The script, lines 150-187. *)

Deref(ref) == heap[ref]

NoRef == 0

\* df.copy() left out: df stays the caller's object.
DfCopyAlias(h, ref) == [heap |-> h, ref |-> ref]

\* df = df.copy(): a new object with the same contents.
DfCopy(h, ref) == [heap |-> Append(h, h[ref]), ref |-> Len(h) + 1]

\* The handlers tried in the opposite order.
ExceptGenericFirst(exc) == [kind |-> "generic", cause |-> exc]

\* except FileNotFoundError: ... / except Exception as e: ...
Except(exc) ==
  IF exc = "FileNotFoundError" THEN [kind |-> "source_unavailable", cause |-> "none"]
  ELSE [kind |-> "generic", cause |-> exc]

\* An exception leaves the try block: one st.error call, and the script ends.
Raise(exc) ==
  /\ raised' = exc
  /\ errors' = Append(errors, Except(exc))
  /\ pc' = "done"

\* The orders in which st.multiselect can return columns: the order the user
\* picked them in.
Selections ==
  { <<>> } \cup { <<c>> : c \in Range(Columns) }
  \cup { p \in Range(Columns) \X Range(Columns) : p[1] # p[2] }

Init ==
  /\ csv \in Files
  /\ pc = "start"
  /\ heap = <<>>
  /\ df_original = NoRef
  /\ df = NoRef
  /\ df_filtrado = NoRef
  /\ modify = FALSE
  /\ to_filter_columns = <<>>
  /\ i = 0
  /\ trace = <<>>
  /\ raised = "none"
  /\ errors = <<>>

\* Line 152, the file missing.
LoadMissing ==
  /\ pc = "start"
  /\ ~csv.exists
  /\ Raise("FileNotFoundError")
  /\ UNCHANGED <<csv, heap, df_original, df, df_filtrado, modify, to_filter_columns, i, trace>>

\* Line 152, the file there and not a table read_csv can parse.
LoadMalformed ==
  /\ pc = "start"
  /\ csv.exists /\ ~csv.wellformed
  /\ Raise("ParserError")
  /\ UNCHANGED <<csv, heap, df_original, df, df_filtrado, modify, to_filter_columns, i, trace>>

\* Line 152: df_original = pd.read_csv(...)
Load ==
  /\ pc = "start"
  /\ csv.exists /\ csv.wellformed
  /\ heap' = <<csv.table>>
  /\ df_original' = 1
  /\ pc' = "loaded"
  /\ UNCHANGED <<csv, df, df_filtrado, modify, to_filter_columns, i, trace, raised, errors>>

\* Lines 155, 88-91: the checkbox is off and filter_dataframe returns its
\* argument.
FilterOff ==
  /\ pc = "loaded"
  /\ modify' = FALSE
  /\ df' = df_original
  /\ df_filtrado' = df_original
  /\ pc' = "returned"
  /\ UNCHANGED <<csv, heap, df_original, to_filter_columns, i, trace, raised, errors>>

\* Lines 155, 88-108: the checkbox is on; the copy, the conversion loop
\* (assignments into the object df refers to) and the column multiselect.
FilterOn ==
  /\ pc = "loaded"
  /\ modify' = TRUE
  /\ LET cp == DfCopy(heap, df_original)
     IN /\ heap' = [cp.heap EXCEPT ![cp.ref] = ConvertAll(cp.heap[cp.ref])]
        /\ df' = cp.ref
  /\ \E sel \in Selections : to_filter_columns' = sel
  /\ i' = 1
  /\ pc' = "filtering"
  /\ UNCHANGED <<csv, df_original, df_filtrado, trace, raised, errors>>

\* One iteration of the loop of lines 109-144 for a column of the given kind:
\* the widget of that kind is drawn and its value applied.
FilterColumn(kind) ==
  LET column == to_filter_columns[i]
  IN /\ Classify(Deref(df), column) = kind
     /\ \E input \in WidgetInputs(Deref(df), column, kind) :
          LET res == ApplyColumn(Deref(df), column, input)
              after == IF res.new THEN Len(heap) + 1 ELSE df
          IN IF res.ok
               THEN /\ heap' = IF res.new THEN Append(heap, res.df) ELSE heap
                    /\ df' = after
                    /\ trace' = Append(trace, [column |-> column, kind |-> kind,
                                               input |-> input, before |-> df,
                                               after |-> after])
                    /\ i' = i + 1
                    /\ UNCHANGED <<pc, raised, errors>>
             ELSE /\ Raise(res.exc)
                  /\ UNCHANGED <<heap, df, trace, i>>
     /\ UNCHANGED <<csv, df_original, df_filtrado, modify, to_filter_columns>>

\* Lines 111-117
FilterCategorical ==
  /\ pc = "filtering"
  /\ i <= Len(to_filter_columns)
  /\ FilterColumn("Categorical")

\* Lines 118-129
FilterNumeric ==
  /\ pc = "filtering"
  /\ i <= Len(to_filter_columns)
  /\ FilterColumn("Numeric")

\* Lines 130-138
FilterTemporal ==
  /\ pc = "filtering"
  /\ i <= Len(to_filter_columns)
  /\ FilterColumn("Temporal")

\* Lines 139-144
FilterText ==
  /\ pc = "filtering"
  /\ i <= Len(to_filter_columns)
  /\ FilterColumn("Text")

\* Lines 145, 155: return df; df_filtrado = ...
Return ==
  /\ pc = "filtering"
  /\ i > Len(to_filter_columns)
  /\ df_filtrado' = df
  /\ pc' = "returned"
  /\ UNCHANGED <<csv, heap, df_original, df, modify, to_filter_columns, i, trace, raised, errors>>

\* Lines 158-182: the table is shown, rendered to PDF and to Excel, and the
\* download buttons are drawn.
Export ==
  /\ pc = "returned"
  /\ IF ~PdfRenders(Deref(df_filtrado)) THEN Raise("FPDFUnicodeEncodingException")
     ELSE IF ~ExcelRenders(Deref(df_filtrado)) THEN Raise("ValueError")
     ELSE pc' = "done" /\ UNCHANGED <<raised, errors>>
  /\ UNCHANGED <<csv, heap, df_original, df, df_filtrado, modify, to_filter_columns, i, trace>>

\* Streamlit runs the script again from the top on the next interaction; the
\* file is the only thing that is kept.
Rerun ==
  /\ pc = "done"
  /\ pc' = "start"
  /\ heap' = <<>>
  /\ df_original' = NoRef
  /\ df' = NoRef
  /\ df_filtrado' = NoRef
  /\ modify' = FALSE
  /\ to_filter_columns' = <<>>
  /\ i' = 0
  /\ trace' = <<>>
  /\ raised' = "none"
  /\ errors' = <<>>
  /\ UNCHANGED csv

Next ==
  \/ LoadMissing
  \/ LoadMalformed
  \/ Load
  \/ FilterOff
  \/ FilterOn
  \/ FilterCategorical
  \/ FilterNumeric
  \/ FilterTemporal
  \/ FilterText
  \/ Return
  \/ Export
  \/ Rerun

Spec == Init /\ [][Next]_vars


------------------------------------------------------------------------------
(* filter_dataframe as a function of a table, a column selection and the     *)
(* widgets' values, for the properties that compare two calls.                *)

\* The value the widget of column c returns when the user's settings are
\* given per column: the user's value for a widget of the kind it was made for,
\* and the widget's own default for a widget of another kind.
WidgetValue(t, c, inputs) ==
  IF inputs[c].kind = Classify(t, c) THEN inputs[c]
  ELSE DefaultInput(t, c, Classify(t, c))

\* The loop of lines 109-144 from its j-th column on.
RECURSIVE FilterLoop(_, _, _, _)
FilterLoop(t, sel, j, inputs) ==
  IF j > Len(sel) THEN [ok |-> TRUE, df |-> t]
  ELSE LET res == ApplyColumn(t, sel[j], WidgetValue(t, sel[j], inputs))
       IN IF res.ok THEN FilterLoop(res.df, sel, j + 1, inputs)
          ELSE [ok |-> FALSE, df |-> t]

\* Lines 93-145 with the checkbox on.
FilterDataframe(t, sel, inputs) == FilterLoop(ConvertAll(t), sel, 1, inputs)

------------------------------------------------------------------------------
(* Properties *)

\* The table filter_dataframe was called with, its converted copy, and the
\* table it returned.
InputTable == Deref(df_original)

WorkRef == IF trace = <<>> THEN df ELSE trace[1].before

WorkTable == Deref(WorkRef)

OutputTable == Deref(df_filtrado)

\* What the user set each selected column's widget to in this pass.
UserInputs ==
  [c \in Range(to_filter_columns) |->
     trace[CHOOSE j \in 1..Len(trace) : trace[j].column = c].input]

\* The kind-specific predicates as the specification states them.
Satisfies(kind, input, v) ==
  CASE kind = "Categorical" -> v \in input.vals
    [] kind = "Numeric" ->
         v.k = "num" /\ input.lo <= SliderSteps * v.n /\ SliderSteps * v.n <= input.hi
    [] kind = "Temporal" ->
         Len(input.dates) = 2 =>
           (v.k = "ts" /\ input.dates[1] * DayUnits <= v.n /\ v.n <= input.dates[2] * DayUnits)
    [] OTHER -> input.pat = <<>> \/ RegexSearch(input.pat, StrOf(v))

C2_OriginalNeverMutated ==
  df_original # NoRef => Deref(df_original) = csv.table

\* A pass with the checkbox on that converted a column and dropped rows.
C2_Witness ==
  /\ pc = "returned"
  /\ modify
  /\ WorkTable.dtype # csv.table.dtype
  /\ Len(OutputTable.index) < Len(csv.table.index)

\* C3: with no column selected the returned table equals the input table:
\* same rows, same order, same columns, same cell values.
C3_EmptySelectionIsIdentity ==
  (pc = "returned" /\ to_filter_columns = <<>>) => OutputTable = InputTable

\* C4: filtering the returned table again with the same selection and the
\* same widget values returns the same table.
C4_Idempotent ==
  (pc = "returned" /\ modify /\ to_filter_columns # <<>>) =>
    LET again == FilterDataframe(OutputTable, to_filter_columns, UserInputs)
    IN again.ok /\ again.df = OutputTable

\* C5: applying the selected columns in the other order, with the same widget
\* values, returns the same table.
C5_OrderIndependent ==
  (pc = "returned" /\ Len(to_filter_columns) = 2) =>
    LET swapped == <<to_filter_columns[2], to_filter_columns[1]>>
        other == FilterDataframe(InputTable, swapped, UserInputs)
    IN other.ok /\ other.df = OutputTable

\* The number of distinct values of column c of t, a missing value not being
\* a value.
DistinctValues(t, c) == Cardinality(ColumnCells(t, c) \ {NA})

\* C6: every column the loop reaches is given one kind by the ordered rule:
\* Categorical iff tagged categorical or fewer than 10 distinct values (9 is
\* Categorical, 10 is not, 0 is); otherwise Numeric for numbers; otherwise
\* Temporal for instants; otherwise Text.
C6_Classification ==
  \A j \in 1..Len(trace) :
    LET t == Deref(trace[j].before)
        c == trace[j].column
        n == DistinctValues(t, c)
        tagged == t.dtype[c] = "category"
        cells == ColumnCells(t, c) \ {NA}
    IN /\ trace[j].kind \in {"Categorical", "Numeric", "Temporal", "Text"}
       /\ trace[j].kind = "Categorical" <=> (tagged \/ n < 10)
       /\ (n = 9 \/ n = 0) => trace[j].kind = "Categorical"
       /\ (n = 10 /\ ~tagged) => trace[j].kind # "Categorical"
       /\ trace[j].kind = "Numeric" <=>
            (~(tagged \/ n < 10) /\ \A v \in cells : v.k = "num")
       /\ trace[j].kind = "Temporal" <=>
            (~(tagged \/ n < 10) /\ \A v \in cells : v.k \in {"ts", "tsz"})
       /\ trace[j].kind = "Text" <=>
            (~(tagged \/ n < 10) /\ \E v \in cells : v.k = "str")

\* A pass that met a column of 9 distinct values and a column of 10.
C6_Witness ==
  /\ \E j \in 1..Len(trace) :
       /\ DistinctValues(Deref(trace[j].before), trace[j].column) = 9
       /\ trace[j].kind = "Categorical"
  /\ \E j \in 1..Len(trace) :
       /\ DistinctValues(Deref(trace[j].before), trace[j].column) = 10
       /\ trace[j].kind # "Categorical"

\* C7: a numeric range left at the column's observed minimum and maximum
\* lets every row pass.
C7_FullRangeKeepsEveryRow ==
  \A j \in 1..Len(trace) :
    LET t == Deref(trace[j].before)
        c == trace[j].column
    IN (trace[j].kind = "Numeric"
        /\ trace[j].input.lo = SliderSteps * ColMin(t, c)
        /\ trace[j].input.hi = SliderSteps * ColMax(t, c))
       => Deref(trace[j].after).index = t.index

\* p occurs in s as a literal substring.
IsSubstring(p, s) ==
  \E q \in 0..(Len(s) - Len(p)) : SubSeq(s, q + 1, q + Len(p)) = p

\* C8: for a Text column a row passes a non-empty pattern iff the string form
\* of its value contains the pattern literally or the pattern matches in it as
\* a regular expression; an empty pattern leaves the table as it is.
C8_SubstringOrRegex ==
  \A j \in 1..Len(trace) :
    LET t == Deref(trace[j].before)
        c == trace[j].column
        pat == trace[j].input.pat
    IN trace[j].kind = "Text" =>
         IF pat = <<>> THEN Deref(trace[j].after) = t
         ELSE \A r \in Rows(t) :
                r \in Rows(Deref(trace[j].after)) <=>
                  (IsSubstring(pat, StrOf(t.data[c][r]))
                   \/ RegexSearch(pat, StrOf(t.data[c][r])))

\* Every value of text column c of the file parses as a date/time (an empty
\* field has nothing to parse).
AllParse(c) ==
  \A r \in Rows(csv.table) :
    csv.table.data[c][r].k = "na" \/ ParseDatetime(csv.table.data[c][r].s).ok

C10_OneErrorOutcome ==
  /\ pc # "done" => (errors = <<>> /\ raised = "none")
  /\ pc = "done" =>
       /\ raised = "none" => errors = <<>>
       /\ raised # "none" => Len(errors) = 1
       /\ ~csv.exists => errors = <<[kind |-> "source_unavailable", cause |-> "none"]>>
       /\ (raised # "none" /\ csv.exists) =>
            errors = <<[kind |-> "generic", cause |-> raised]>>
       /\ \A e \in Range(errors) : e.kind = "source_unavailable" => ~csv.exists

\* A pass that ended in a failure of a predicate (a text pattern that is not a
\* regular expression), reported as the generic error with its cause.
C10_Witness ==
  /\ pc = "done"
  /\ csv.exists
  /\ raised = "re.error"
  /\ errors = <<[kind |-> "generic", cause |-> "re.error"]>>

=============================================================================
